---- MODULE Spec2Model ----
(***************************************************************************)
(* Model of src/gemma3_vision_demo/app.py: the Gemma3VisionDemo service.   *)
(* The constructor loads the model once; analyze_image turns one           *)
(* (image, question) pair into one answer, going through a temporary PNG   *)
(* file on disk.  Several analyze_image calls may be in flight at once     *)
(* (the form framework dispatches submissions), one per thread.            *)
(*                                                                         *)
(* Text that the code inspects character by character (the question) is a  *)
(* sequence of one-character strings; text it only passes along is a       *)
(* TLA+ string.                                                            *)
(***************************************************************************)
EXTENDS Integers, Sequences, FiniteSets, TLC

\* ------------------------------------------------------------------ bounds
\* longest question typed by a caller
MaxLen == 2
\* analyze_image calls started in one run, over all threads
MaxCalls == 3
\* names the temporary directory can hand out
NumPaths == 2

\* --------------------------------------------------------------- constants
\* app.py:180
MAX_TOKENS == 300
\* app.py:181 (temperature=0.0)
TEMPERATURE == 0
\* app.py:170
NUM_IMAGES == 1

\* app.py:134
DefaultModelPath == "mlx-community/gemma-3-4b-it-8bit"
\* app.py:153
NoImageMessage == "Please upload an image first."
\* app.py:156
DefaultQuestion ==
    << "D","e","s","c","r","i","b","e"," ","t","h","i","s"," ",
       "i","m","a","g","e"," ","i","n"," ","d","e","t","a","i","l","." >>

\* ------------------------------------------------------------ value spaces
Threads == {"t1", "t2"}

\* "no value": Python's None, an unset local
None == [kind |-> "None"]

\* characters str.strip() removes, and the characters callers type
Whitespace == {" ", "\t", "\n", "\r"}
Alphabet == {" ", "a"}

RECURSIVE SeqsUpTo(_)
SeqsUpTo(n) ==
    IF n = 0 THEN {<< >>}
    ELSE LET shorter == SeqsUpTo(n - 1)
         IN  shorter \cup {Append(s, c) : s \in {x \in shorter : Len(x) = n - 1}, c \in Alphabet}

Questions == SeqsUpTo(MaxLen)

\* the questions typed while two submissions are in flight: an empty one, and
\* one with text and whitespace around it
ConcurrentQuestions == {<< >>, <<" ", "a">>}

\* PIL images by mode and content: PNG can encode RGB, it cannot encode CMYK
Image(mode, color) == [kind |-> "image", mode |-> mode, color |-> color]
Images == {Image("RGB", "red"), Image("RGB", "white"), Image("CMYK", "red")}
ImageArgs == Images \cup {None}

\* the constructor's argument list: empty, or one model identifier
ModelPathArgs == {<< >>, <<"custom/model/path">>}

\* names tempfile can hand out: a fresh random stem plus the suffix asked for
TmpPath(n, suffix) == [kind |-> "path", stem |-> n, suffix |-> suffix]
Paths == {TmpPath(n, ".png") : n \in 1..NumPaths}

\* what the collaborators can answer
Texts == {"A red image", ""}
EngineErrors == {"Generation failed", "Out of memory"}
TemplateErrors == {"Template failed"}
LoadErrors == {"Model not found"}

\* how a call ends
Return(v) == [kind |-> "return", value |-> v]
Raise(e) == [kind |-> "raise", exc |-> e]

VARIABLES
    entry,           \* who drives the service: "main" (main(), the form) or "direct" callers
    ctorArgs,        \* the arguments Gemma3VisionDemo(...) was called with
    workers,         \* the threads the form framework dispatches submissions on
    asked,           \* the questions callers type
    initpc,          \* where the constructor stands: start, load, load_config, ready, failed
    model_path,      \* Gemma3VisionDemo.__init__'s model_path
    model,           \* self.model
    processor,       \* self.processor
    config,          \* self.config
    loadCalls,       \* arguments of every load(...) call so far
    loadConfigCalls, \* arguments of every load_config(...) call so far
    ui,              \* none, created (create_interface), launched (launch)
    loaderRaised,    \* what load or load_config raised, if one did
    ctorResult,      \* how Gemma3VisionDemo(...) ended, as its caller sees it
    mainResult,      \* how main() ended, if it did
    disk,            \* the temporary directory: path -> None (no file) or the file's content
    calls,           \* analyze_image calls started so far
    pc,              \* per thread: where its analyze_image call stands
    image,           \* per thread: the image argument
    argQuestion,     \* per thread: the question argument as passed
    question,        \* per thread: the local `question` (reassigned at line 156)
    image_path,      \* per thread: the local `image_path`
    prompt,          \* per thread: the local `prompt`
    output,          \* per thread: the local `output`
    pending,         \* per thread: the return value or exception held while finally runs
    result,          \* per thread: how the call ended, as its caller sees it
    templateCalls,   \* per thread: arguments of the call's apply_chat_template calls
    generateCalls,   \* per thread: arguments of the call's generate calls
    tmpCreated,      \* per thread: temporary files the call created
    removeCalls,     \* per thread: arguments of the call's os.remove calls
    steps            \* per thread: the steps the call has taken, in order

startVars == << loaderRaised, ctorResult, mainResult >>
svcVars == << initpc, model_path, model, processor, config, loadCalls, loadConfigCalls, ui,
             startVars >>
frameVars == << pc, image, argQuestion, question, image_path, prompt, output, pending, result >>
callLogs == << templateCalls, generateCalls, tmpCreated, removeCalls >>
logVars == << callLogs, steps >>
envVars == << entry, workers, asked, ctorArgs >>
vars == << envVars, svcVars, disk, calls, frameVars, logVars >>

\* ------------------------------------------------------------ pure helpers
IsSpace(c) == c \in Whitespace

\* str.strip(): drop leading and trailing whitespace
RECURSIVE lstrip(_)
lstrip(s) == IF s # << >> /\ IsSpace(Head(s)) THEN lstrip(Tail(s)) ELSE s

RECURSIVE rstrip(_)
rstrip(s) ==
    IF s # << >> /\ IsSpace(s[Len(s)]) THEN rstrip(SubSeq(s, 1, Len(s) - 1)) ELSE s

strip(s) == rstrip(lstrip(s))

\* the question with leading or trailing whitespace removed (a plausible slip)
EffectiveQuestionTrimmed(q) == IF strip(q) = << >> THEN DefaultQuestion ELSE strip(q)

\* the default applied only to the empty string (a plausible slip)
EffectiveQuestionNoStrip(q) == IF q = << >> THEN DefaultQuestion ELSE q

\* app.py:155-156
EffectiveQuestion(q) == IF strip(q) = << >> THEN DefaultQuestion ELSE q

\* mlx_vlm.load(path): the (model, processor) pair it returns
LoadedModel(path) == [kind |-> "model", path |-> path]
LoadedProcessor(path) == [kind |-> "processor", path |-> path]
\* mlx_vlm.utils.load_config(path)
LoadedConfig(path) == [kind |-> "config", path |-> path]

\* the prompt apply_chat_template builds from its arguments
FormattedPrompt(a) == [kind |-> "prompt", of |-> a]

\* whether PIL can encode the image as PNG
PngWritable(img) == img \in Images /\ img.mode = "RGB"

\* a file on disk and what was written to it (None: nothing yet)
File(data) == [kind |-> "file", data |-> data]
Exists(path) == disk[path] # None

\* the missing-image test left out (a plausible slip)
ImageMissingNever(img) == FALSE

\* app.py:152
ImageMissing(img) == img = None

\* the default identifier whatever the caller passes (a plausible slip)
ConstructorPathAlwaysDefault(args) == DefaultModelPath

\* app.py:134: the model_path parameter and its default
ConstructorPath(args) == IF args = << >> THEN DefaultModelPath ELSE args[1]

\* app.py:166-171: the arguments of apply_chat_template
TemplateArgs(t) ==
    [processor |-> processor, config |-> config, question |-> question[t],
     num_images |-> NUM_IMAGES]

\* a token budget that grows with the requests served (a plausible slip)
GenerateKwargsPerRequest ==
    [verbose |-> FALSE, max_tokens |-> MAX_TOKENS * calls, temperature |-> TEMPERATURE]

\* app.py:179-181: the keyword arguments of generate
GenerateKwargs ==
    [verbose |-> FALSE, max_tokens |-> MAX_TOKENS, temperature |-> TEMPERATURE]

\* the in-memory image handed to generate instead of the file's path (a plausible slip)
GenerateArgsPassesImage(t) ==
    [model |-> model, processor |-> processor, prompt |-> prompt[t],
     image |-> image[t], kwargs |-> GenerateKwargs]

\* app.py:174-182: the arguments of generate
GenerateArgs(t) ==
    [model |-> model, processor |-> processor, prompt |-> prompt[t],
     image |-> image_path[t], kwargs |-> GenerateKwargs]

\* ------------------------------------------------------------------- Init
InitProgram ==
    /\ ctorArgs = << >>
    /\ initpc = "start"
    /\ model_path = None
    /\ model = None
    /\ processor = None
    /\ config = None
    /\ loadCalls = << >>
    /\ loadConfigCalls = << >>
    /\ ui = "none"
    /\ loaderRaised = None
    /\ ctorResult = None
    /\ mainResult = None
    /\ disk = [p \in Paths |-> None]
    /\ calls = 0
    /\ pc = [t \in Threads |-> "idle"]
    /\ image = [t \in Threads |-> None]
    /\ argQuestion = [t \in Threads |-> << >>]
    /\ question = [t \in Threads |-> << >>]
    /\ image_path = [t \in Threads |-> None]
    /\ prompt = [t \in Threads |-> None]
    /\ output = [t \in Threads |-> None]
    /\ pending = [t \in Threads |-> None]
    /\ result = [t \in Threads |-> None]
    /\ templateCalls = [t \in Threads |-> << >>]
    /\ generateCalls = [t \in Threads |-> << >>]
    /\ tmpCreated = [t \in Threads |-> << >>]
    /\ removeCalls = [t \in Threads |-> << >>]
    /\ steps = [t \in Threads |-> << >>]

\* a caller that builds the service itself and calls it directly, one call at a
\* time, with any question
Init ==
    /\ entry = "direct"
    /\ workers = {"t1"}
    /\ asked = Questions
    /\ InitProgram

\* main(): the launched form, serving two submissions at a time
InitConcurrent ==
    /\ entry = "main"
    /\ workers = Threads
    /\ asked = ConcurrentQuestions
    /\ InitProgram

\* ------------------------------------------------------------ constructor
\* Gemma3VisionDemo(model_path=...): entry, lines 134-136;
\* main() passes no argument (line 265)
NewDemo ==
    /\ initpc = "start"
    /\ \E args \in (IF entry = "main" THEN {<< >>} ELSE ModelPathArgs) :
          /\ ctorArgs' = args
          /\ model_path' = ConstructorPath(args)
    /\ initpc' = "load"
    /\ UNCHANGED << model, processor, config, loadCalls, loadConfigCalls, ui, startVars,
                    entry, workers, asked, disk, calls, frameVars, logVars >>

\* what main() does with an exception of the constructor: lines 263-266 have no
\* try, so main ends with it
MainOutcome(exc) == IF entry = "main" THEN Raise(exc) ELSE None

\* a load failure reported and passed over, the constructor going on without a
\* model (a plausible slip)
LoadReportsAndGoesOn ==
    /\ initpc = "load"
    /\ loadCalls' = Append(loadCalls, model_path)
    /\ \/ /\ model' = LoadedModel(model_path)
          /\ processor' = LoadedProcessor(model_path)
          /\ UNCHANGED loaderRaised
       \/ \E e \in LoadErrors :
             /\ loaderRaised' = Raise(e)
             /\ UNCHANGED << model, processor >>
    /\ initpc' = "load_config"
    /\ UNCHANGED << model_path, config, loadConfigCalls, ui, ctorResult, mainResult,
                    envVars, disk, calls, frameVars, logVars >>

\* line 137: self.model, self.processor = load(model_path); load may raise, and
\* nothing in __init__ catches
Load ==
    /\ initpc = "load"
    /\ loadCalls' = Append(loadCalls, model_path)
    /\ \/ /\ model' = LoadedModel(model_path)
          /\ processor' = LoadedProcessor(model_path)
          /\ initpc' = "load_config"
          /\ UNCHANGED startVars
       \/ \E e \in LoadErrors :
             /\ loaderRaised' = Raise(e)
             /\ ctorResult' = Raise(e)
             /\ mainResult' = MainOutcome(e)
             /\ initpc' = "failed"
             /\ UNCHANGED << model, processor >>
    /\ UNCHANGED << model_path, config, loadConfigCalls, ui,
                    envVars, disk, calls, frameVars, logVars >>

\* line 138: self.config = load_config(model_path); load_config may raise
LoadConfig ==
    /\ initpc = "load_config"
    /\ loadConfigCalls' = Append(loadConfigCalls, model_path)
    /\ \/ /\ config' = LoadedConfig(model_path)
          /\ ctorResult' = Return("Gemma3VisionDemo")
          /\ initpc' = "ready"
          /\ UNCHANGED << loaderRaised, mainResult >>
       \/ \E e \in LoadErrors :
             /\ loaderRaised' = Raise(e)
             /\ ctorResult' = Raise(e)
             /\ mainResult' = MainOutcome(e)
             /\ initpc' = "failed"
             /\ UNCHANGED config
    /\ UNCHANGED << model_path, model, processor, loadCalls, ui,
                    envVars, disk, calls, frameVars, logVars >>

\* create_interface, lines 190-255: builds the form, binds analyze_image to
\* submit; called directly or by launch (line 259)
CreateInterface ==
    /\ initpc = "ready"
    /\ ui = "none"
    /\ ui' = "created"
    /\ UNCHANGED << initpc, model_path, model, processor, config, loadCalls, startVars,
                    loadConfigCalls, envVars, disk, calls, frameVars, logVars >>

\* launch, line 260: demo.launch(**kwargs) on the interface just created
Launch ==
    /\ initpc = "ready"
    /\ ui = "created"
    /\ ui' = "launched"
    /\ UNCHANGED << initpc, model_path, model, processor, config, loadCalls, startVars,
                    loadConfigCalls, envVars, disk, calls, frameVars, logVars >>

\* ---------------------------------------------------------- analyze_image
\* lines 141-156: entry, the missing-image return, the default question;
\* the form submits only once launched, a direct caller calls at any time
Call(t) ==
    /\ initpc = "ready"
    /\ entry = "direct" \/ ui = "launched"
    /\ t \in workers
    /\ pc[t] \in {"idle", "done"}
    /\ calls < MaxCalls
    /\ calls' = calls + 1
    /\ \E img \in ImageArgs, q \in asked :
          /\ image' = [image EXCEPT ![t] = img]
          /\ argQuestion' = [argQuestion EXCEPT ![t] = q]
          /\ IF ImageMissing(img)
             THEN /\ question' = [question EXCEPT ![t] = q]
                  /\ result' = [result EXCEPT ![t] = Return(NoImageMessage)]
                  /\ pc' = [pc EXCEPT ![t] = "done"]
             ELSE /\ question' = [question EXCEPT ![t] = EffectiveQuestion(q)]
                  /\ result' = [result EXCEPT ![t] = None]
                  /\ pc' = [pc EXCEPT ![t] = "mktemp"]
    /\ image_path' = [image_path EXCEPT ![t] = None]
    /\ prompt' = [prompt EXCEPT ![t] = None]
    /\ output' = [output EXCEPT ![t] = None]
    /\ pending' = [pending EXCEPT ![t] = None]
    /\ templateCalls' = [templateCalls EXCEPT ![t] = << >>]
    /\ generateCalls' = [generateCalls EXCEPT ![t] = << >>]
    /\ tmpCreated' = [tmpCreated EXCEPT ![t] = << >>]
    /\ removeCalls' = [removeCalls EXCEPT ![t] = << >>]
    /\ steps' = [steps EXCEPT ![t] = << >>]
    /\ UNCHANGED << envVars, svcVars, disk >>

\* one fixed file name for every call instead of a fresh one (a plausible slip)
MakeTempFixedName(t) ==
    /\ pc[t] = "mktemp"
    /\ LET p == TmpPath(1, ".png")
       IN  /\ disk' = [disk EXCEPT ![p] = File(None)]
           /\ tmpCreated' = [tmpCreated EXCEPT ![t] = Append(@, p)]
           /\ image_path' = [image_path EXCEPT ![t] = p]
    /\ steps' = [steps EXCEPT ![t] = @ \o <<"create", "close">>]
    /\ pc' = [pc EXCEPT ![t] = "save"]
    /\ UNCHANGED << envVars, svcVars, calls, image, argQuestion, question, prompt, output,
                    pending, result, templateCalls, generateCalls, removeCalls >>

\* lines 159-161: NamedTemporaryFile(suffix=".png", delete=False) creates a file
\* under a name no existing file has, the call closes it and keeps its name
MakeTemp(t) ==
    /\ pc[t] = "mktemp"
    /\ IF \E p \in Paths : ~Exists(p)
       THEN \E p \in Paths :
              /\ ~Exists(p)
              /\ disk' = [disk EXCEPT ![p] = File(None)]
              /\ tmpCreated' = [tmpCreated EXCEPT ![t] = Append(@, p)]
              /\ image_path' = [image_path EXCEPT ![t] = p]
              /\ steps' = [steps EXCEPT ![t] = @ \o <<"create", "close">>]
              /\ pc' = [pc EXCEPT ![t] = "save"]
              /\ UNCHANGED result
       ELSE /\ result' = [result EXCEPT ![t] = Raise("FileExistsError")]
            /\ pc' = [pc EXCEPT ![t] = "done"]
            /\ UNCHANGED << disk, tmpCreated, image_path, steps >>
    /\ UNCHANGED << envVars, svcVars, calls, image, argQuestion, question, prompt, output,
                    pending, templateCalls, generateCalls, removeCalls >>

\* line 162: image.save(image_path, format="PNG"), outside the try block:
\* an image PNG cannot encode makes it raise, and nothing below it runs
SaveImage(t) ==
    /\ pc[t] = "save"
    /\ IF PngWritable(image[t])
       THEN /\ disk' = [disk EXCEPT ![image_path[t]] = File(image[t])]
            /\ steps' = [steps EXCEPT ![t] = Append(@, "save")]
            /\ pc' = [pc EXCEPT ![t] = "template"]
            /\ UNCHANGED result
       ELSE /\ result' = [result EXCEPT ![t] = Raise("OSError")]
            /\ steps' = [steps EXCEPT ![t] = Append(@, "save_raised")]
            /\ pc' = [pc EXCEPT ![t] = "done"]
            /\ UNCHANGED disk
    /\ UNCHANGED << envVars, svcVars, calls, image, argQuestion, question, image_path, prompt,
                    output, pending, callLogs >>

\* a formatter failure caught and passed over, the call going on to generate
\* without a prompt (a plausible slip)
ApplyTemplateGoesOn(t) ==
    /\ pc[t] = "template"
    /\ templateCalls' = [templateCalls EXCEPT ![t] = Append(@, TemplateArgs(t))]
    /\ steps' = [steps EXCEPT ![t] = Append(@, "template")]
    /\ \/ prompt' = [prompt EXCEPT ![t] = FormattedPrompt(TemplateArgs(t))]
       \/ \E e \in TemplateErrors : UNCHANGED prompt
    /\ pc' = [pc EXCEPT ![t] = "generate"]
    /\ UNCHANGED << envVars, svcVars, disk, calls, image, argQuestion, question, image_path,
                    output, pending, result, generateCalls, tmpCreated, removeCalls >>

\* lines 164-171: prompt = apply_chat_template(...), inside try
ApplyTemplate(t) ==
    /\ pc[t] = "template"
    /\ templateCalls' = [templateCalls EXCEPT ![t] = Append(@, TemplateArgs(t))]
    /\ steps' = [steps EXCEPT ![t] = Append(@, "template")]
    /\ \/ /\ prompt' = [prompt EXCEPT ![t] = FormattedPrompt(TemplateArgs(t))]
          /\ pc' = [pc EXCEPT ![t] = "generate"]
          /\ UNCHANGED pending
       \/ \E e \in TemplateErrors :
             /\ pending' = [pending EXCEPT ![t] = Raise(e)]
             /\ pc' = [pc EXCEPT ![t] = "finally"]
             /\ UNCHANGED prompt
    /\ UNCHANGED << envVars, svcVars, disk, calls, image, argQuestion, question, image_path,
                    output, result, generateCalls, tmpCreated, removeCalls >>

\* the model dropped from the service when generation fails, to free its
\* memory (a plausible slip)
GenerateDropsModelOnError(t) ==
    /\ pc[t] = "generate"
    /\ generateCalls' = [generateCalls EXCEPT ![t] = Append(@, GenerateArgs(t))]
    /\ steps' = [steps EXCEPT ![t] = Append(@, "generate")]
    /\ \/ \E text \in Texts :
             /\ output' = [output EXCEPT ![t] = [text |-> text]]
             /\ pending' = [pending EXCEPT ![t] = Return(text)]
             /\ UNCHANGED model
       \/ \E e \in EngineErrors :
             /\ pending' = [pending EXCEPT ![t] = Raise(e)]
             /\ model' = None
             /\ UNCHANGED output
    /\ pc' = [pc EXCEPT ![t] = "finally"]
    /\ UNCHANGED << envVars, initpc, model_path, processor, config, loadCalls,
                    loadConfigCalls, ui, startVars, disk, calls, image, argQuestion,
                    question, image_path, prompt, result, templateCalls, tmpCreated,
                    removeCalls >>

\* a failed generation tried once more before giving up (a plausible slip)
GenerateRetries(t) ==
    /\ pc[t] = "generate"
    /\ generateCalls' = [generateCalls EXCEPT ![t] = Append(@, GenerateArgs(t))]
    /\ steps' = [steps EXCEPT ![t] = Append(@, "generate")]
    /\ \/ \E text \in Texts :
             /\ output' = [output EXCEPT ![t] = [text |-> text]]
             /\ pending' = [pending EXCEPT ![t] = Return(text)]
             /\ pc' = [pc EXCEPT ![t] = "finally"]
       \/ \E e \in EngineErrors :
             IF generateCalls[t] = << >>
             THEN UNCHANGED << output, pending, pc >>
             ELSE /\ pending' = [pending EXCEPT ![t] = Raise(e)]
                  /\ pc' = [pc EXCEPT ![t] = "finally"]
                  /\ UNCHANGED output
    /\ UNCHANGED << envVars, svcVars, disk, calls, image, argQuestion, question, image_path,
                    prompt, result, templateCalls, tmpCreated, removeCalls >>

\* lines 174-184: output = generate(...); return output.text, inside try
Generate(t) ==
    /\ pc[t] = "generate"
    /\ generateCalls' = [generateCalls EXCEPT ![t] = Append(@, GenerateArgs(t))]
    /\ steps' = [steps EXCEPT ![t] = Append(@, "generate")]
    /\ \/ \E text \in Texts :
             /\ output' = [output EXCEPT ![t] = [text |-> text]]
             /\ pending' = [pending EXCEPT ![t] = Return(text)]
       \/ \E e \in EngineErrors :
             /\ pending' = [pending EXCEPT ![t] = Raise(e)]
             /\ UNCHANGED output
    /\ pc' = [pc EXCEPT ![t] = "finally"]
    /\ UNCHANGED << envVars, svcVars, disk, calls, image, argQuestion, question, image_path,
                    prompt, result, templateCalls, tmpCreated, removeCalls >>

\* cleanup written after the try block's work instead of in finally: it is
\* skipped when an exception is on its way out (a plausible slip)
FinallyOnlyOnReturn(t) ==
    /\ pc[t] = "finally"
    /\ IF pending[t].kind = "return" /\ Exists(image_path[t])
       THEN /\ pc' = [pc EXCEPT ![t] = "remove"]
            /\ UNCHANGED result
       ELSE /\ pc' = [pc EXCEPT ![t] = "done"]
            /\ result' = [result EXCEPT ![t] = pending[t]]
    /\ steps' = [steps EXCEPT ![t] = Append(@, "exists")]
    /\ UNCHANGED << envVars, svcVars, disk, calls, image, argQuestion, question, image_path,
                    prompt, output, pending, callLogs >>

\* lines 185-187: finally: if os.path.exists(image_path)
FinallyExists(t) ==
    /\ pc[t] = "finally"
    /\ IF Exists(image_path[t])
       THEN /\ pc' = [pc EXCEPT ![t] = "remove"]
            /\ UNCHANGED result
       ELSE /\ pc' = [pc EXCEPT ![t] = "done"]
            /\ result' = [result EXCEPT ![t] = pending[t]]
    /\ steps' = [steps EXCEPT ![t] = Append(@, "exists")]
    /\ UNCHANGED << envVars, svcVars, disk, calls, image, argQuestion, question, image_path,
                    prompt, output, pending, callLogs >>

\* an except clause that turns the failure into an answer string (a plausible slip)
FinallyRemoveSwallows(t) ==
    /\ pc[t] = "remove"
    /\ removeCalls' = [removeCalls EXCEPT ![t] = Append(@, image_path[t])]
    /\ steps' = [steps EXCEPT ![t] = Append(@, "remove")]
    /\ disk' = [disk EXCEPT ![image_path[t]] = None]
    /\ result' = [result EXCEPT ![t] =
                    IF pending[t].kind = "raise" THEN Return("Error: generation failed")
                    ELSE pending[t]]
    /\ pc' = [pc EXCEPT ![t] = "done"]
    /\ UNCHANGED << envVars, svcVars, calls, image, argQuestion, question, image_path,
                    prompt, output, pending, templateCalls, generateCalls, tmpCreated >>

\* line 188: os.remove(image_path), then the pending return or exception goes on;
\* os.remove raises FileNotFoundError for a file that is gone
FinallyRemove(t) ==
    /\ pc[t] = "remove"
    /\ removeCalls' = [removeCalls EXCEPT ![t] = Append(@, image_path[t])]
    /\ steps' = [steps EXCEPT ![t] = Append(@, "remove")]
    /\ IF Exists(image_path[t])
       THEN /\ disk' = [disk EXCEPT ![image_path[t]] = None]
            /\ result' = [result EXCEPT ![t] = pending[t]]
       ELSE /\ result' = [result EXCEPT ![t] = Raise("FileNotFoundError")]
            /\ UNCHANGED disk
    /\ pc' = [pc EXCEPT ![t] = "done"]
    /\ UNCHANGED << envVars, svcVars, calls, image, argQuestion, question, image_path,
                    prompt, output, pending, templateCalls, generateCalls, tmpCreated >>

\* ------------------------------------------------------------------- Next
Next ==
    \/ NewDemo
    \/ Load
    \/ LoadConfig
    \/ CreateInterface
    \/ Launch
    \/ \E t \in Threads : Call(t)
    \/ \E t \in Threads : MakeTemp(t)
    \/ \E t \in Threads : SaveImage(t)
    \/ \E t \in Threads : ApplyTemplate(t)
    \/ \E t \in Threads : Generate(t)
    \/ \E t \in Threads : FinallyExists(t)
    \/ \E t \in Threads : FinallyRemove(t)

Spec == Init /\ [][Next]_vars

SpecConcurrent == InitConcurrent /\ [][Next]_vars

\* ------------------------------------------- a shared temporary directory
\* another party (a cleaner of the temporary directory, another process)
\* removes a file of the directory; the code allows for it at line 187
ExternalRemove(p) ==
    /\ Exists(p)
    /\ disk' = [disk EXCEPT ![p] = None]
    /\ UNCHANGED << envVars, svcVars, calls, frameVars, logVars >>

\* a direct caller, one call at a time, next to such a party
InitExternal ==
    /\ entry = "direct"
    /\ workers = {"t1"}
    /\ asked = ConcurrentQuestions
    /\ InitProgram

NextExternal ==
    \/ Next
    \/ \E p \in Paths : ExternalRemove(p)

SpecExternal == InitExternal /\ [][NextExternal]_vars

\* ----------------------------------------------------------------- claims
\* a question made of whitespace only (its trimmed form is empty)
AllSpace(q) == \A i \in 1..Len(q) : q[i] \in Whitespace

\* the thread's call has gone past its entry
Started(t) == pc[t] # "idle"

\* the Generation Engine was invoked by the thread's call and raised
EngineRaised(t) == generateCalls[t] # << >> /\ output[t] = None

\* C1: a call with no image returns exactly "Please upload an image first.",
\* whatever the question, creates no temporary file and invokes neither
\* apply_chat_template nor generate.
C1_NoImageReturnsAdvice ==
    \A t \in Threads :
        (Started(t) /\ image[t] = None) =>
            /\ pc[t] = "done"
            /\ result[t] = Return("Please upload an image first.")
            /\ tmpCreated[t] = << >>
            /\ image_path[t] = None
            /\ templateCalls[t] = << >>
            /\ generateCalls[t] = << >>

C1_Witness ==
    \E t \in Threads :
        /\ pc[t] = "done"
        /\ image[t] = None
        /\ argQuestion[t] = <<"a", " ">>
        /\ result[t] = Return("Please upload an image first.")

\* C2: on the step that ends a call in which generate was invoked (it returned
\* the text or it raised), the call's temporary file does not exist.
C2_TempFileGoneAfterCall ==
    [][\A t \in Threads :
          (pc[t] # "done" /\ pc'[t] = "done" /\ generateCalls'[t] # << >>) =>
              /\ image_path'[t] \in Paths
              /\ disk'[image_path'[t]] = None]_vars

C2_Witness ==
    \E t \in Threads :
        /\ pc[t] = "done"
        /\ EngineRaised(t)
        /\ result[t].kind = "raise"
        /\ disk[image_path[t]] = None
        /\ \E u \in Threads : pc[u] = "done" /\ output[u] # None /\ disk[image_path[u]] = None

\* C3: no exit of analyze_image leaves a temporary file it created on disk,
\* the exit taken when image.save raises included.
C3_NoExitLeavesTempFile ==
    [][\A t \in Threads :
          (pc[t] # "done" /\ pc'[t] = "done") =>
              \A i \in 1..Len(tmpCreated'[t]) : disk'[tmpCreated'[t][i]] = None]_vars

\* C4: when generate raises, the caller sees that same exception, nothing is
\* seen before cleanup has run, and os.remove ran exactly once, on the call's file.
C4_EngineErrorAfterCleanup ==
    \A t \in Threads :
        EngineRaised(t) =>
            /\ pending[t] \in {Raise(e) : e \in EngineErrors}
            /\ pc[t] # "done" => result[t] = None
            /\ pc[t] = "done" =>
                  /\ result[t] = pending[t]
                  /\ removeCalls[t] = << image_path[t] >>

C4_Witness ==
    \E t \in Threads :
        /\ pc[t] = "done"
        /\ EngineRaised(t)
        /\ result[t] = Raise("Out of memory")
        /\ Len(removeCalls[t]) = 1

\* C5: with an image and a whitespace-only (or empty) question, the question
\* given to apply_chat_template is "Describe this image in detail.".
C5_BlankQuestionBecomesDefault ==
    \A t \in Threads :
        (image[t] # None /\ AllSpace(argQuestion[t])) =>
            /\ pc[t] \in {"generate", "finally", "remove"} => templateCalls[t] # << >>
            /\ \A i \in 1..Len(templateCalls[t]) :
                  templateCalls[t][i].question = DefaultQuestion

C5_Witness ==
    \E t \in Threads :
        /\ argQuestion[t] = <<" ", " ">>
        /\ Len(templateCalls[t]) = 1
        /\ templateCalls[t][1].question = DefaultQuestion

\* C6: with an image and a question that has a non-whitespace character, the
\* question given to apply_chat_template is the question as passed, leading and
\* trailing whitespace included.
C6_QuestionPassedUntrimmed ==
    \A t \in Threads :
        (image[t] # None /\ ~AllSpace(argQuestion[t])) =>
            /\ pc[t] \in {"generate", "finally", "remove"} => templateCalls[t] # << >>
            /\ \A i \in 1..Len(templateCalls[t]) :
                  templateCalls[t][i].question = argQuestion[t]

C6_Witness ==
    \E t \in Threads :
        /\ argQuestion[t] = <<" ", "a">>
        /\ Len(templateCalls[t]) = 1
        /\ templateCalls[t][1].question = <<" ", "a">>

\* C7: every generate call carries verbose=False, max_tokens=300 and
\* temperature=0.0, whatever the image, the question and the requests before it.
C7_FixedGenerationParameters ==
    \A t \in Threads :
        \A i \in 1..Len(generateCalls[t]) :
            generateCalls[t][i].kwargs =
                [verbose |-> FALSE, max_tokens |-> 300, temperature |-> 0]

C7_Witness ==
    \E t, u \in Threads :
        /\ t # u
        /\ calls = MaxCalls
        /\ generateCalls[t] # << >> /\ generateCalls[u] # << >>
        /\ image[t] # image[u]
        /\ argQuestion[t] # argQuestion[u]

\* C8: when the Formatter and the Engine both succeed, the Formatter was given
\* (stored processor, stored config, effective question, num_images=1), the
\* Engine was given the stored model and processor, the prompt the Formatter
\* returned and the path of the call's own temporary file, and the caller gets
\* the text of the Engine's result unchanged.
C8_SuccessfulCallWiring ==
    \A t \in Threads :
        (pc[t] = "done" /\ output[t] # None) =>
            /\ templateCalls[t] =
                  << [processor |-> processor,
                      config |-> config,
                      question |-> IF AllSpace(argQuestion[t]) THEN DefaultQuestion
                                   ELSE argQuestion[t],
                      num_images |-> 1] >>
            /\ Len(tmpCreated[t]) = 1
            /\ Len(generateCalls[t]) = 1
            /\ generateCalls[t][1].model = model
            /\ generateCalls[t][1].processor = processor
            /\ generateCalls[t][1].prompt = FormattedPrompt(templateCalls[t][1])
            /\ generateCalls[t][1].image = tmpCreated[t][1]
            /\ result[t] = Return(output[t].text)

C8_Witness ==
    \E t \in Threads :
        /\ pc[t] = "done"
        /\ image[t] = Image("RGB", "red")
        /\ argQuestion[t] = <<"a">>
        /\ output[t] = [text |-> "A red image"]
        /\ result[t] = Return("A red image")

\* the thread's call holds a temporary file: created, not yet cleaned up
HoldsFile(t) == pc[t] \in {"save", "template", "generate", "finally", "remove"}
\* the thread's call has persisted its image and has not yet cleaned up
Persisted(t) == pc[t] \in {"template", "generate", "finally", "remove"}

\* C9: two calls in flight at once never use the same temporary path, and a
\* call's file stays on disk, holding that call's image, from the moment it is
\* persisted until the call's own cleanup.
C9_ConcurrentCallsDoNotShareFiles ==
    /\ \A t, u \in Threads :
          (t # u /\ HoldsFile(t) /\ HoldsFile(u)) => image_path[t] # image_path[u]
    /\ \A t \in Threads :
          /\ HoldsFile(t) => disk[image_path[t]] # None
          /\ Persisted(t) => disk[image_path[t]] = File(image[t])

C9_Witness ==
    \E t, u \in Threads :
        /\ t # u
        /\ pc[t] = "generate" /\ pc[u] = "remove"
        /\ image[t] # image[u]
        /\ image_path[t] # image_path[u]
        /\ disk[image_path[t]] = File(image[t])
        /\ disk[image_path[u]] = File(image[u])

\* C10: construction calls load once and load_config once, both with the
\* identifier given ("mlx-community/gemma-3-4b-it-8bit" when none is), and
\* stores what they return; nothing that runs later calls either again.
C10_ModelLoadedOnce ==
    LET id == IF ctorArgs = << >> THEN "mlx-community/gemma-3-4b-it-8bit"
              ELSE ctorArgs[1]
    IN  /\ Len(loadCalls) <= 1
        /\ Len(loadConfigCalls) <= 1
        /\ initpc = "ready" =>
              /\ loadCalls = << id >>
              /\ loadConfigCalls = << id >>
              /\ model = LoadedModel(id)
              /\ processor = LoadedProcessor(id)
              /\ config = LoadedConfig(id)

C10_Witness ==
    /\ initpc = "ready"
    /\ ctorArgs = <<"custom/model/path">>
    /\ loadCalls = <<"custom/model/path">>
    /\ ui = "launched"
    /\ calls = MaxCalls
    /\ \E t \in Threads : pc[t] = "done" /\ generateCalls[t] # << >>

\* C11: when load or load_config fails during initialization, the constructor
\* ends with that failure and so does main(): no service object is obtained,
\* the form is neither created nor launched, and no analyze_image call starts.
C11_LoadFailureIsFatal ==
    loaderRaised # None =>
        /\ initpc = "failed"
        /\ ctorResult = loaderRaised
        /\ entry = "main" => mainResult = loaderRaised
        /\ ui = "none"
        /\ calls = 0
        /\ \A t \in Threads : pc[t] = "idle" /\ result[t] = None

C11_Witness ==
    /\ entry = "main"
    /\ Len(loadCalls) = 1
    /\ Len(loadConfigCalls) = 1
    /\ loaderRaised = Raise("Model not found")
    /\ mainResult = Raise("Model not found")

\* apply_chat_template was invoked by the thread's call and raised
TemplateRaised(t) == templateCalls[t] # << >> /\ prompt[t] = None

\* C12: when apply_chat_template raises, generate is never invoked for that
\* call, the caller sees the formatter's own exception and sees it only once
\* cleanup has run, and on the step that ends the call its temporary file has
\* been removed.
C12_TemplateErrorAfterCleanup ==
    [][\A t \in Threads :
          TemplateRaised(t)' =>
              /\ generateCalls'[t] = << >>
              /\ pending'[t] \in {Raise(e) : e \in TemplateErrors}
              /\ pc'[t] # "done" => result'[t] = None
              /\ pc'[t] = "done" =>
                    /\ result'[t] = pending'[t]
                    /\ removeCalls'[t] = << image_path'[t] >>
              /\ (pc[t] # "done" /\ pc'[t] = "done") =>
                    disk'[image_path'[t]] = None]_vars

C12_Witness ==
    \E t, u \in Threads :
        /\ t # u
        /\ pc[t] = "done"
        /\ TemplateRaised(t)
        /\ result[t] = Raise("Template failed")
        /\ generateCalls[t] = << >>
        /\ disk[image_path[t]] = None
        /\ pc[u] = "generate"

\* C13: a temporary file that is gone at cleanup time is tolerated silently,
\* whenever another party removed it: a call whose try block ended with a
\* return or an exception ends with that same return or exception.
C13_MissingFileTolerated ==
    \A t \in Threads :
        (pc[t] = "done" /\ pending[t] # None) =>
            /\ result[t] = pending[t]
            /\ Len(removeCalls[t]) <= 1

\* the order of a call's steps when generate is reached, and when the
\* formatter raises before it
StepsWithEngine == <<"create", "close", "save", "template", "generate", "exists", "remove">>
StepsWithoutEngine == <<"create", "close", "save", "template", "exists", "remove">>
StepsSaveRaised == <<"create", "close", "save_raised">>

IsPrefix(s, full) == Len(s) <= Len(full) /\ s = SubSeq(full, 1, Len(s))
Took(t, step) == \E i \in 1..Len(steps[t]) : steps[t][i] = step

Frame(t) ==
    << image[t], argQuestion[t], question[t], image_path[t], prompt[t], output[t],
       pending[t] >>

\* C15: once the constructor has returned, no step reassigns self.model,
\* self.processor or self.config, whatever the calls in flight do and however
\* they end; and the state of a request (its temporary path with its other
\* locals) is not shared: no step changes the locals of two requests.
C15_ServiceStateIsReadOnly ==
    [][/\ initpc = "ready" =>
             /\ model' = model
             /\ processor' = processor
             /\ config' = config
             /\ model' = LoadedModel(ConstructorPath(ctorArgs))
             /\ processor' = LoadedProcessor(ConstructorPath(ctorArgs))
             /\ config' = LoadedConfig(ConstructorPath(ctorArgs))
       /\ \A t, u \in Threads :
             t # u => (Frame(t)' = Frame(t) \/ Frame(u)' = Frame(u))]_vars

C15_Witness ==
    \E t, u \in Threads :
        /\ t # u
        /\ calls = MaxCalls
        /\ pc[t] = "done" /\ EngineRaised(t) /\ result[t].kind = "raise"
        /\ pc[u] = "done" /\ image[u] = None /\ result[u].kind = "return"
        /\ model = LoadedModel(DefaultModelPath)
        /\ processor = LoadedProcessor(DefaultModelPath)
        /\ config = LoadedConfig(DefaultModelPath)

====
